---- MODULE Spec2Model ----
(***************************************************************************)
(* Payment authorisation (bank_web/payments.rs, post) and refund           *)
(* accumulation (bank/refunds.rs, insert) of the bank service.             *)
(*                                                                         *)
(* Every .await of a handler is a suspension point: the code between two   *)
(* awaits is one atomic step, and steps of different requests interleave.  *)
(* The Postgres tables are sets of rows; each SQL statement is atomic.     *)
(***************************************************************************)
EXTENDS Integers, FiniteSets, Sequences, TLC

-----------------------------------------------------------------------------
(* Bounds of the model *)

\* number of concurrent refund requests in flight
NumRefundProcs == 2
\* total number of CreateRefund requests issued in one behaviour
MaxRefundCalls == 2
\* number of CreateRefund requests one client issues one after the other
MaxSeqRefundCalls == 4
\* number of concurrent payment requests in flight
NumPayProcs == 2
\* total number of CreatePayment requests issued in one behaviour
MaxPayCalls == 2
\* total number of reads issued in one behaviour
MaxReads == 2
\* number of CreateRefund requests issued next to the reads
MaxReadRefundCalls == 2

\* range of i32 (Refund.amount, RequestData.amount)
I32Max == 2147483647
I32Min == -I32Max - 1

RefundProcs == 1..NumRefundProcs
PayProcs == 1..NumPayProcs

\* request amounts tried: a negative one, small ones, and the largest i32
RefundAmounts == {-1, 2, 3, I32Max}
PayAmounts == {-1, 0, 5}
Cards == {"card_a", "card_b"}

\* payment rows present before the first request: one approved payment of 5
\* on card_a and one declined payment; later ids are not allocated yet
SeedPayments ==
  { [id |-> 1, amount |-> 5, card_number |-> "card_a", status |-> "Approved"],
    [id |-> 2, amount |-> 5, card_number |-> "card_b", status |-> "Declined"] }
FirstFreePaymentId == Cardinality(SeedPayments) + 1
\* payment ids a refund request may name: the approved payment, the declined
\* one, and an id with no row
PaymentIds == {1, 2, 3}

-----------------------------------------------------------------------------
VARIABLES
  payments,      \* table payments: set of rows
  refunds,       \* table refunds: set of rows [id, payment_id, amount]
  nextRefundId,  \* next value of the refunds.id default
  rpc,           \* refund request r: position in insert
  rreq,          \* refund request r: [payment_id, amount]
  rloc,          \* refund request r: locals payment_fund, refund, total
  rres,          \* refund request r: value returned by insert
  rcalls,        \* number of CreateRefund requests issued so far
  rstart,        \* history: amount already refunded when r was issued
  rconc,         \* history: requests in flight together with r
  okSum,         \* history: per payment, sum of the amounts of the successful requests
  nextPaymentId, \* next value of the payments.id default
  holds,         \* Funds Authority: per hold token, its state and the calls made on it
  ppc,           \* payment request w: position in post
  preq,          \* payment request w: body.payment
  ploc,          \* payment request w: locals hold, insert result, payment_id
  pres,          \* payment request w: value returned by post
  pcalls,        \* number of CreatePayment requests issued so far
  gres,          \* the last read: its query, what it returned, and history
  greads         \* number of reads issued so far

rvars == <<refunds, nextRefundId, rpc, rreq, rloc, rres, rcalls, rstart, rconc, okSum>>
pvars == <<nextPaymentId, holds, ppc, preq, ploc, pres, pcalls>>
gvars == <<gres, greads>>
vars == <<payments, rvars, pvars, gvars>>

-----------------------------------------------------------------------------
(* i32 arithmetic *)

\* e + a leaves the i32 range
Overflows(e, a) ==
  \/ a > 0 /\ e > I32Max - a
  \/ a < 0 /\ e < I32Min - a

\* e + a as a release build computes it (two's complement wrap-around)
WrapAdd(e, a) ==
  IF a > 0 /\ e > I32Max - a THEN (e - I32Max - 1) + (a - I32Max - 1)
  ELSE IF a < 0 /\ e < I32Min - a THEN (e + I32Max + 1) + (a + I32Max + 1)
  ELSE e + a

\* Integers wider than 32 bits, for sums of i32 values: <<h, l>> stands for
\* h * 65536 + l with 0 <= l < 65536
Wide(n) == <<n \div 65536, n % 65536>>

WAdd(x, y) ==
  LET l == x[2] + y[2] IN <<x[1] + y[1] + (l \div 65536), l % 65536>>

WLeq(x, y) == x[1] < y[1] \/ (x[1] = y[1] /\ x[2] <= y[2])

-----------------------------------------------------------------------------
(* Values *)

NoReq == [payment_id |-> 0, amount |-> 0]
NoLoc == [payment_fund |-> 0, some |-> FALSE, refund_amount |-> 0, total |-> 0]
NoRes == [kind |-> "none", id |-> 0, payment_id |-> 0, amount |-> 0, code |-> 0]

\* Ok(ResponseData::new(id, payment_id, amount))
OkRes(row) ==
  [kind |-> "Ok", id |-> row.id, payment_id |-> row.payment_id,
   amount |-> row.amount, code |-> 200]

\* Err(CustomError::...)
ErrRes(kind, code) ==
  [kind |-> kind, id |-> 0, payment_id |-> 0, amount |-> 0, code |-> code]

\* rows of refunds with this payment_id
RefundRows(pid) == {r \in refunds : r.payment_id = pid}

\* rows of payments with this id
PaymentRows(pid) == {p \in payments : p.id = pid}

RECURSIVE SumAmounts(_)
SumAmounts(rows) ==
  IF rows = {} THEN Wide(0)
  ELSE LET r == CHOOSE x \in rows : TRUE
       IN WAdd(Wide(r.amount), SumAmounts(rows \ {r}))

\* cumulative refunded amount persisted for a payment
Refunded(pid) == SumAmounts(RefundRows(pid))

\* requests between their first and their last step
RInFlight == {r \in RefundProcs : rpc[r] \in {"get_payment_refund", "update", "insert"}}

-----------------------------------------------------------------------------
(* bank::payments::get: SELECT ... FROM payments WHERE id = $1, fetch_one *)

\* the results fetch_one can give: the row, or an error (no row; database fault)
PaymentsGet(pid, fault) ==
  IF fault \/ PaymentRows(pid) = {}
  THEN {[ok |-> FALSE, id |-> 0, amount |-> 0, status |-> "none"]}
  ELSE {[ok |-> TRUE, id |-> p.id, amount |-> p.amount, status |-> p.status]
          : p \in PaymentRows(pid)}

(* bank::refunds::get_payment_refund: SELECT ... WHERE payment_id = $1,
   fetch_optional: None, or the first row the query yields (no ORDER BY) *)
GetPaymentRefund(pid) ==
  IF RefundRows(pid) = {}
  THEN {[some |-> FALSE, id |-> 0, amount |-> 0]}
  ELSE {[some |-> TRUE, id |-> r.id, amount |-> r.amount] : r \in RefundRows(pid)}

-----------------------------------------------------------------------------
(* bank::refunds::insert *)

\* the request ends with this result
RFinish(r, res) ==
  /\ rpc' = [rpc EXCEPT ![r] = "done"]
  /\ rres' = [rres EXCEPT ![r] = res]

\* "if x.status == Status::Approved"
IsRefundable_AnyStatus(x) == TRUE

IsRefundable(x) == x.status = "Approved"

\* insert is called; it awaits payments::get and matches on the result
RefundCall(r, pid, amount, fault) ==
  /\ rpc[r] \in {"idle", "done", "panicked"}
  /\ rcalls' = rcalls + 1
  /\ rreq' = [rreq EXCEPT ![r] = [payment_id |-> pid, amount |-> amount]]
  /\ rstart' = [rstart EXCEPT ![r] = Refunded(pid)]
  /\ rconc' = [q \in RefundProcs |->
                 IF q = r THEN RInFlight \ {r}
                 ELSE IF q \in RInFlight THEN rconc[q] \cup {r} ELSE rconc[q]]
  /\ \E x \in PaymentsGet(pid, fault) :
       IF x.ok
       THEN IF IsRefundable(x)
            THEN /\ rpc' = [rpc EXCEPT ![r] = "get_payment_refund"]
                 /\ rloc' = [rloc EXCEPT ![r] = [NoLoc EXCEPT !.payment_fund = x.amount]]
                 /\ rres' = [rres EXCEPT ![r] = NoRes]
            ELSE /\ RFinish(r, ErrRes("PaymentNotExist", 404))
                 /\ rloc' = [rloc EXCEPT ![r] = NoLoc]
       ELSE /\ RFinish(r, ErrRes("PaymentNotExist", 404))
            /\ rloc' = [rloc EXCEPT ![r] = NoLoc]
  /\ UNCHANGED <<payments, pvars, gvars, refunds, nextRefundId, okSum>>

\* "if total <= payment_fund" / "if payment_fund >= amount"
WithinPayment(total, payment_fund) == total <= payment_fund

\* get_payment_refund returned; the match on it up to the next await.
\* overflow_checks: the build panics on i32 overflow (debug profile) or wraps
\* (release profile)
RefundDecide(r, fault, overflow_checks) ==
  /\ rpc[r] = "get_payment_refund"
  /\ LET pid == rreq[r].payment_id
         amount == rreq[r].amount
         fund == rloc[r].payment_fund
     IN IF fault
        THEN /\ RFinish(r, ErrRes("Sql", 500))
             /\ UNCHANGED rloc
        ELSE \E refund \in GetPaymentRefund(pid) :
          IF refund.some
          THEN IF Overflows(refund.amount, amount) /\ overflow_checks
               THEN \* attempt to add with overflow: the task panics
                    /\ rpc' = [rpc EXCEPT ![r] = "panicked"]
                    /\ rloc' = [rloc EXCEPT ![r] =
                          [payment_fund |-> fund, some |-> TRUE,
                           refund_amount |-> refund.amount, total |-> 0]]
                    /\ UNCHANGED rres
               ELSE LET total == WrapAdd(refund.amount, amount)
                    IN IF WithinPayment(total, fund)
                       THEN /\ rpc' = [rpc EXCEPT ![r] = "update"]
                            /\ rloc' = [rloc EXCEPT ![r] =
                                  [payment_fund |-> fund, some |-> TRUE,
                                   refund_amount |-> refund.amount, total |-> total]]
                            /\ UNCHANGED rres
                       ELSE /\ RFinish(r, ErrRes("AmoutRefundFailed", 422))
                            /\ rloc' = [rloc EXCEPT ![r] =
                                  [payment_fund |-> fund, some |-> TRUE,
                                   refund_amount |-> refund.amount, total |-> total]]
          ELSE IF WithinPayment(amount, fund)
               THEN /\ rpc' = [rpc EXCEPT ![r] = "insert"]
                    /\ rloc' = [rloc EXCEPT ![r] = [@ EXCEPT !.total = amount]]
                    /\ UNCHANGED rres
               ELSE /\ RFinish(r, ErrRes("AmoutRefundFailed", 422))
                    /\ rloc' = [rloc EXCEPT ![r] = [@ EXCEPT !.total = amount]]
  /\ UNCHANGED <<payments, pvars, gvars, refunds, nextRefundId, rreq, rcalls,
                 rstart, rconc, okSum>>

\* rows of refunds after UPDATE refunds SET amount = $1 WHERE payment_id = $2
UpdatedRefunds(pid, total) ==
  {IF row.payment_id = pid THEN [row EXCEPT !.amount = total] ELSE row : row \in refunds}

\* the successful request adds its amount to the history sum
Credit(pid, amount) ==
  okSum' = [okSum EXCEPT ![pid] = WAdd(@, Wide(amount))]

\* UPDATE refunds SET amount = total WHERE payment_id = ... RETURNING *, fetch_one
RefundUpdate(r, fault) ==
  /\ rpc[r] = "update"
  /\ LET pid == rreq[r].payment_id
         total == rloc[r].total
     IN IF fault \/ RefundRows(pid) = {}
        THEN /\ RFinish(r, ErrRes("Sql", 500))
             /\ UNCHANGED <<refunds, okSum>>
        ELSE /\ refunds' = UpdatedRefunds(pid, total)
             /\ \E s \in {row \in UpdatedRefunds(pid, total) : row.payment_id = pid} :
                  RFinish(r, OkRes(s))
             /\ Credit(pid, rreq[r].amount)
  /\ UNCHANGED <<payments, pvars, gvars, nextRefundId, rreq, rloc, rcalls,
                 rstart, rconc>>

\* rows of refunds after INSERT INTO refunds (payment_id, amount) VALUES ($1, $2)
InsertedRefunds(row) == refunds \cup {row}

\* INSERT INTO refunds ... RETURNING *, fetch_one
RefundInsert(r, fault) ==
  /\ rpc[r] = "insert"
  /\ LET pid == rreq[r].payment_id
         row == [id |-> nextRefundId, payment_id |-> pid, amount |-> rreq[r].amount]
     IN IF fault
        THEN /\ RFinish(r, ErrRes("Sql", 500))
             /\ UNCHANGED <<refunds, nextRefundId, okSum>>
        ELSE /\ refunds' = InsertedRefunds(row)
             /\ nextRefundId' = nextRefundId + 1
             /\ RFinish(r, OkRes(row))
             /\ Credit(pid, rreq[r].amount)
  /\ UNCHANGED <<payments, pvars, gvars, rreq, rloc, rcalls, rstart, rconc>>

-----------------------------------------------------------------------------
(* Funds Authority (AccountService): place_hold, withdraw_funds, release_hold *)

\* what place_hold can answer: Ok(token) or Err(reason)
HoldAnswers ==
  {"granted", "invalid_account_number", "invalid_amount", "insufficient_funds", "other"}

NoHold ==
  [card_number |-> "none", placed |-> FALSE, withdrawn |-> FALSE, released |-> FALSE,
   withdraw_calls |-> 0, release_calls |-> 0, completed |-> FALSE]

\* place_hold(card_number, amount) grants token t: the funds are reserved
PlaceHold(t, card) ==
  [holds EXCEPT ![t] = [NoHold EXCEPT !.placed = TRUE, !.card_number = card]]

\* withdraw_funds(t): the held funds are withdrawn, or the call reports an error
WithdrawFunds(t, ok) ==
  [holds EXCEPT ![t] = [@ EXCEPT !.withdraw_calls = @ + 1,
                                 !.withdrawn = @ \/ ok]]

\* release_hold(t): the hold is cancelled, or the call reports an error
ReleaseHold(t, ok) ==
  [holds EXCEPT ![t] = [@ EXCEPT !.release_calls = @ + 1,
                                 !.released = @ \/ ok]]

-----------------------------------------------------------------------------
(* bank::payments::insert: INSERT INTO payments ..., with the uniqueness of
   card_number among approved payments *)

CardUsed(card) ==
  \E p \in payments : p.card_number = card /\ p.status = "Approved"

\* "ok", or why the insert fails
PaymentsInsert(card, status, fault) ==
  IF fault THEN "fault"
  ELSE IF status = "Approved" /\ CardUsed(card) THEN "duplicate"
  ELSE "ok"

-----------------------------------------------------------------------------
(* bank_web::payments::post *)

NoPReq == [amount |-> 0, card_number |-> "none"]
NoPLoc ==
  [answer |-> "none", hold |-> 0, insert |-> "none", payment_id |-> 0,
   get |-> "none"]
NoPRes ==
  [kind |-> "none", code |-> 0, error |-> "none", id |-> 0, amount |-> 0,
   card_number |-> "none", status |-> "none"]

\* Ok((code, Json(ResponseBody { data })))
POk(code, id, amount, card, status) ==
  [kind |-> "Ok", code |-> code, error |-> "none", id |-> id, amount |-> amount,
   card_number |-> card, status |-> status]

\* Err((code, Json(ErrorResponseBody { error })))
PErr(code, error) ==
  [kind |-> "Err", code |-> code, error |-> error, id |-> 0, amount |-> 0,
   card_number |-> "none", status |-> "none"]

\* post returns res
PFinish(w, res) ==
  /\ ppc' = [ppc EXCEPT ![w] = "done"]
  /\ pres' = [pres EXCEPT ![w] = res]

\* an unwrap() on Err: the task of the request panics and returns nothing
PPanic(w) ==
  /\ ppc' = [ppc EXCEPT ![w] = "panicked"]
  /\ UNCHANGED pres

\* the hold of the request that ended is marked as past its request
Completed(h, t) ==
  IF t = 0 THEN h ELSE [h EXCEPT ![t] = [@ EXCEPT !.completed = TRUE]]

\* "if body.payment.amount == 0"
ZeroAmount_Never(amount) == FALSE

ZeroAmount(amount) == amount = 0

\* the declined result: Uuid::nil(), the request's amount and card_number,
\* Status::Declined
Declined_NoEcho(code, amount, card) == POk(code, 0, 0, card, "Declined")

Declined(code, amount, card) == POk(code, 0, amount, card, "Declined")

\* post is called: the zero check, then place_hold and the match on its answer
PayCall(w, amount, card, answer) ==
  /\ ppc[w] \in {"idle", "done", "panicked"}
  /\ preq' = [preq EXCEPT ![w] = [amount |-> amount, card_number |-> card]]
  /\ IF ZeroAmount(amount)
     THEN /\ PFinish(w, PErr(204, "zero amount"))
          /\ ploc' = [ploc EXCEPT ![w] = NoPLoc]
          /\ UNCHANGED <<holds, pcalls>>
     ELSE /\ pcalls' = pcalls + 1
          /\ CASE answer = "granted" ->
                    /\ holds' = PlaceHold(pcalls + 1, card)
                    /\ ploc' = [ploc EXCEPT ![w] = [NoPLoc EXCEPT !.answer = answer,
                                                           !.hold = pcalls + 1]]
                    /\ ppc' = [ppc EXCEPT ![w] = "insert"]
                    /\ pres' = [pres EXCEPT ![w] = NoPRes]
               [] answer = "invalid_account_number" ->
                    /\ PFinish(w, Declined(403, amount, card))
                    /\ ploc' = [ploc EXCEPT ![w] = [NoPLoc EXCEPT !.answer = answer]]
                    /\ UNCHANGED holds
               [] answer = "invalid_amount" ->
                    /\ PFinish(w, PErr(400, "invalid amount"))
                    /\ ploc' = [ploc EXCEPT ![w] = [NoPLoc EXCEPT !.answer = answer]]
                    /\ UNCHANGED holds
               [] answer = "insufficient_funds" ->
                    /\ PFinish(w, Declined(402, amount, card))
                    /\ ploc' = [ploc EXCEPT ![w] = [NoPLoc EXCEPT !.answer = answer]]
                    /\ UNCHANGED holds
               [] OTHER ->
                    /\ PFinish(w, PErr(204, "cannot process the request"))
                    /\ ploc' = [ploc EXCEPT ![w] = [NoPLoc EXCEPT !.answer = answer]]
                    /\ UNCHANGED holds
  /\ UNCHANGED <<payments, nextPaymentId, rvars, gvars>>

\* the arm taken on the result of payments::insert: Ok => withdraw_funds,
\* Err => release_hold
OnInsert_WithdrawAlways(got) == "withdraw"

OnInsert_Swapped(got) == IF got = "ok" THEN "release" ELSE "withdraw"

OnInsert(got) == IF got = "ok" THEN "withdraw" ELSE "release"

\* payments::insert(pool, amount, card_number, Status::Approved) and the match on it
PayInsert(w, fault) ==
  /\ ppc[w] = "insert"
  /\ LET got == PaymentsInsert(preq[w].card_number, "Approved", fault)
     IN IF got = "ok"
        THEN /\ payments' = payments \cup
                   {[id |-> nextPaymentId, amount |-> preq[w].amount,
                     card_number |-> preq[w].card_number, status |-> "Approved"]}
             /\ nextPaymentId' = nextPaymentId + 1
             /\ ploc' = [ploc EXCEPT ![w] = [@ EXCEPT !.insert = got,
                                                      !.payment_id = nextPaymentId]]
             /\ ppc' = [ppc EXCEPT ![w] = OnInsert(got)]
        ELSE /\ ploc' = [ploc EXCEPT ![w] = [@ EXCEPT !.insert = got]]
             /\ ppc' = [ppc EXCEPT ![w] = OnInsert(got)]
             /\ UNCHANGED <<payments, nextPaymentId>>
  /\ UNCHANGED <<holds, preq, pres, pcalls, rvars, gvars>>

\* the unwrap() on the result of withdraw_funds: Ok => go on to the read
\* of the payment, Err => panic
OnWithdraw_Ignored(ok) == "get"

OnWithdraw(ok) == IF ok THEN "get" ELSE "panicked"

\* withdraw_funds(hold.unwrap()).await.unwrap()
PayWithdraw(w, ok) ==
  /\ ppc[w] = "withdraw"
  /\ IF OnWithdraw(ok) = "get"
     THEN /\ holds' = WithdrawFunds(ploc[w].hold, ok)
          /\ ppc' = [ppc EXCEPT ![w] = "get"]
          /\ UNCHANGED pres
     ELSE /\ holds' = Completed(WithdrawFunds(ploc[w].hold, ok), ploc[w].hold)
          /\ PPanic(w)
  /\ UNCHANGED <<payments, nextPaymentId, preq, ploc, pcalls, rvars, gvars>>

\* the 201 response, built from the row read back
Created_Zeroed(p) == POk(201, p.id, 0, p.card_number, p.status)

Created(p) == POk(201, p.id, p.amount, p.card_number, p.status)

\* payments::get(pool, payment_id).await.unwrap() and the 201 response
PayGet(w, fault) ==
  /\ ppc[w] = "get"
  /\ holds' = Completed(holds, ploc[w].hold)
  /\ \E x \in PaymentsGet(ploc[w].payment_id, fault) :
       IF x.ok
       THEN /\ \E p \in PaymentRows(x.id) : PFinish(w, Created(p))
            /\ ploc' = [ploc EXCEPT ![w] = [@ EXCEPT !.get = "ok"]]
       ELSE /\ PPanic(w)
            /\ ploc' = [ploc EXCEPT ![w] = [@ EXCEPT !.get = "fault"]]
  /\ UNCHANGED <<payments, nextPaymentId, preq, pcalls, rvars, gvars>>

\* release_hold(hold.unwrap()).await.unwrap() and the 422 response
PayRelease(w, ok) ==
  /\ ppc[w] = "release"
  /\ holds' = Completed(ReleaseHold(ploc[w].hold, ok), ploc[w].hold)
  /\ IF ok
     THEN PFinish(w, PErr(422, "card_number already used"))
     ELSE PPanic(w)
  /\ UNCHANGED <<payments, nextPaymentId, preq, ploc, pcalls, rvars, gvars>>

-----------------------------------------------------------------------------
(* the reads: bank_web::payments::get, bank::refunds::get and
   bank::refunds::get_payment_refund. Each is one query. *)

\* refund ids a read may name: the id of the first row, and an id with no row
RefundIds == {1, 2}

NoOut ==
  [kind |-> "none", code |-> 0, id |-> 0, payment_id |-> 0, amount |-> 0,
   card_number |-> "none", status |-> "none"]
NoGRes ==
  [op |-> "none", arg |-> 0, fault |-> FALSE, out |-> NoOut,
   seen |-> <<{}, {}>>, again |-> FALSE, prev |-> NoOut]

\* the read returns out. History: the tables it saw, whether it repeats the
\* previous read (same query, same fault, same tables), and what that returned.
GRead(op, arg, fault, out) ==
  /\ gres' = [op |-> op, arg |-> arg, fault |-> fault, out |-> out,
              seen |-> <<payments, refunds>>,
              again |-> /\ gres.op = op /\ gres.arg = arg /\ gres.fault = fault
                        /\ gres.seen = <<payments, refunds>>,
              prev |-> gres.out]
  /\ greads' = greads + 1

\* bank_web::payments::get: payments::get(pool, payment_id).await.unwrap(),
\* then Ok((StatusCode::OK, data))
WebPaymentsGet(pid, fault) ==
  /\ \E x \in PaymentsGet(pid, fault) :
       IF x.ok
       THEN \E p \in PaymentRows(x.id) :
              GRead("payments_get", pid, fault,
                    [NoOut EXCEPT !.kind = "Ok", !.code = 200, !.id = p.id,
                                  !.amount = p.amount,
                                  !.card_number = p.card_number,
                                  !.status = p.status])
       ELSE GRead("payments_get", pid, fault, [NoOut EXCEPT !.kind = "panicked"])
  /\ UNCHANGED <<payments, rvars, pvars>>

\* bank::refunds::get: SELECT ... FROM refunds WHERE id = $1, fetch_one
RefundsGet_Consuming(id, fault) ==
  /\ IF fault \/ {r \in refunds : r.id = id} = {}
     THEN GRead("refunds_get", id, fault, [NoOut EXCEPT !.kind = "Err"])
     ELSE \E r \in {x \in refunds : x.id = id} :
            GRead("refunds_get", id, fault,
                  [NoOut EXCEPT !.kind = "Ok", !.id = r.id,
                                !.payment_id = r.payment_id, !.amount = r.amount])
  /\ refunds' = {r \in refunds : r.id # id}
  /\ UNCHANGED <<payments, nextRefundId, rpc, rreq, rloc, rres, rcalls, rstart,
                 rconc, okSum, pvars>>

RefundsGet(id, fault) ==
  /\ IF fault \/ {r \in refunds : r.id = id} = {}
     THEN GRead("refunds_get", id, fault, [NoOut EXCEPT !.kind = "Err"])
     ELSE \E r \in {x \in refunds : x.id = id} :
            GRead("refunds_get", id, fault,
                  [NoOut EXCEPT !.kind = "Ok", !.id = r.id,
                                !.payment_id = r.payment_id, !.amount = r.amount])
  /\ UNCHANGED <<payments, rvars, pvars>>

\* bank::refunds::get_payment_refund as a read of its own: Err on a fault,
\* else Ok(None) or Ok(Some(row))
RefundsGetPaymentRefund(pid, fault) ==
  /\ IF fault
     THEN GRead("get_payment_refund", pid, fault, [NoOut EXCEPT !.kind = "Err"])
     ELSE \E x \in GetPaymentRefund(pid) :
            IF x.some
            THEN GRead("get_payment_refund", pid, fault,
                       [NoOut EXCEPT !.kind = "Some", !.id = x.id,
                                     !.payment_id = pid, !.amount = x.amount])
            ELSE GRead("get_payment_refund", pid, fault,
                       [NoOut EXCEPT !.kind = "None"])
  /\ UNCHANGED <<payments, rvars, pvars>>

-----------------------------------------------------------------------------
Init ==
  /\ payments = SeedPayments
  /\ refunds = {}
  /\ nextRefundId = 1
  /\ rpc = [r \in RefundProcs |-> "idle"]
  /\ rreq = [r \in RefundProcs |-> NoReq]
  /\ rloc = [r \in RefundProcs |-> NoLoc]
  /\ rres = [r \in RefundProcs |-> NoRes]
  /\ rcalls = 0
  /\ rstart = [r \in RefundProcs |-> Wide(0)]
  /\ rconc = [r \in RefundProcs |-> {}]
  /\ okSum = [p \in PaymentIds |-> Wide(0)]
  /\ nextPaymentId = FirstFreePaymentId
  /\ holds = [t \in 1..MaxPayCalls |-> NoHold]
  /\ ppc = [w \in PayProcs |-> "idle"]
  /\ preq = [w \in PayProcs |-> NoPReq]
  /\ ploc = [w \in PayProcs |-> NoPLoc]
  /\ pres = [w \in PayProcs |-> NoPRes]
  /\ pcalls = 0
  /\ gres = NoGRes
  /\ greads = 0

CreateRefund ==
  /\ rcalls < MaxRefundCalls
  /\ \E r \in RefundProcs, pid \in PaymentIds, amount \in RefundAmounts,
        fault \in BOOLEAN :
       RefundCall(r, pid, amount, fault)
Decide ==
  \E r \in RefundProcs, fault \in BOOLEAN, overflow_checks \in BOOLEAN :
    RefundDecide(r, fault, overflow_checks)
Update == \E r \in RefundProcs, fault \in BOOLEAN : RefundUpdate(r, fault)
Insert == \E r \in RefundProcs, fault \in BOOLEAN : RefundInsert(r, fault)

RefundNext == CreateRefund \/ Decide \/ Update \/ Insert

RefundSpec == Init /\ [][RefundNext]_vars

CreatePayment ==
  /\ pcalls < MaxPayCalls
  /\ \E w \in PayProcs, amount \in PayAmounts, card \in Cards,
        answer \in HoldAnswers :
       PayCall(w, amount, card, answer)
InsertPayment == \E w \in PayProcs, fault \in BOOLEAN : PayInsert(w, fault)
Withdraw == \E w \in PayProcs, ok \in BOOLEAN : PayWithdraw(w, ok)
GetPayment == \E w \in PayProcs, fault \in BOOLEAN : PayGet(w, fault)
Release == \E w \in PayProcs, ok \in BOOLEAN : PayRelease(w, ok)

PayNext == CreatePayment \/ InsertPayment \/ Withdraw \/ GetPayment \/ Release

PaySpec == Init /\ [][PayNext]_vars

Next == RefundNext \/ PayNext

Spec == Init /\ [][Next]_vars

\* one client issuing its refund requests one after the other
SeqCreateRefund ==
  /\ rcalls < MaxSeqRefundCalls
  /\ \E pid \in PaymentIds, amount \in RefundAmounts, fault \in BOOLEAN :
       RefundCall(1, pid, amount, fault)
SeqDecide ==
  \E fault \in BOOLEAN, overflow_checks \in BOOLEAN : RefundDecide(1, fault, overflow_checks)
SeqUpdate == \E fault \in BOOLEAN : RefundUpdate(1, fault)
SeqInsert == \E fault \in BOOLEAN : RefundInsert(1, fault)

SeqRefundNext == SeqCreateRefund \/ SeqDecide \/ SeqUpdate \/ SeqInsert

SeqRefundSpec == Init /\ [][SeqRefundNext]_vars

\* one client issuing its payment requests one after the other, and reads
\* of payments by id
SeqCreatePayment ==
  /\ pcalls < MaxPayCalls
  /\ \E amount \in PayAmounts, card \in Cards, answer \in HoldAnswers :
       PayCall(1, amount, card, answer)
SeqInsertPayment == \E fault \in BOOLEAN : PayInsert(1, fault)
SeqWithdraw == \E ok \in BOOLEAN : PayWithdraw(1, ok)
SeqGetPayment == \E fault \in BOOLEAN : PayGet(1, fault)
SeqRelease == \E ok \in BOOLEAN : PayRelease(1, ok)
ReadPayment ==
  /\ greads < MaxReads
  /\ \E pid \in PaymentIds, fault \in BOOLEAN : WebPaymentsGet(pid, fault)

RoundTripNext ==
  \/ SeqCreatePayment \/ SeqInsertPayment \/ SeqWithdraw \/ SeqGetPayment
  \/ SeqRelease \/ ReadPayment

RoundTripSpec == Init /\ [][RoundTripNext]_vars

\* one client issuing refund requests, and the three reads
ReadCreateRefund ==
  /\ rcalls < MaxReadRefundCalls
  /\ \E pid \in PaymentIds, amount \in RefundAmounts, fault \in BOOLEAN :
       RefundCall(1, pid, amount, fault)
ReadRefund ==
  /\ greads < MaxReads
  /\ \E id \in RefundIds, fault \in BOOLEAN : RefundsGet(id, fault)
ReadRefundForPayment ==
  /\ greads < MaxReads
  /\ \E pid \in PaymentIds, fault \in BOOLEAN : RefundsGetPaymentRefund(pid, fault)

ReadNext ==
  \/ ReadCreateRefund \/ SeqDecide \/ SeqUpdate \/ SeqInsert
  \/ ReadPayment \/ ReadRefund \/ ReadRefundForPayment

ReadSpec == Init /\ [][ReadNext]_vars

-----------------------------------------------------------------------------
(* Properties *)

\* the payment row with this id exists and is approved
ApprovedPayment(pid) == \E p \in PaymentRows(pid) : p.status = "Approved"

\* c + a <= limit, over the integers
Fits(c, a, limit) == WLeq(WAdd(c, Wide(a)), Wide(limit))

\* request r is past its read of the refund row and the comparison with the payment
Decided(r) ==
  \/ rpc[r] \in {"update", "insert"}
  \/ rpc[r] = "done" /\ rres[r].kind \in {"Ok", "AmoutRefundFailed"}

\* C1 (refund bound): for every payment, the amounts persisted in refunds for
\* it add up to no more than the payment's amount.
C1_RefundBound ==
  \A p \in payments : WLeq(Refunded(p.id), Wide(p.amount))

\* C2 (refund serialization): two concurrent requests against one payment,
\* issued when the same amount c was refunded, with c + a <= amount,
\* c + b <= amount and c + a + b > amount, do not both succeed.
C2_AtMostOneSucceeds ==
  \A x, y \in RefundProcs :
    ( /\ x # y
      /\ x \in rconc[y] /\ y \in rconc[x]
      /\ rreq[x].payment_id = rreq[y].payment_id
      /\ rstart[x] = rstart[y]
      /\ \E p \in PaymentRows(rreq[x].payment_id) :
            /\ Fits(rstart[x], rreq[x].amount, p.amount)
            /\ Fits(rstart[x], rreq[y].amount, p.amount)
            /\ ~WLeq(WAdd(WAdd(rstart[x], Wide(rreq[x].amount)), Wide(rreq[y].amount)),
                     Wide(p.amount)) )
    => ~(rpc[x] = "done" /\ rres[x].kind = "Ok" /\ rpc[y] = "done" /\ rres[y].kind = "Ok")

\* C3 (hold resolution): a hold whose request has ended is withdrawn or
\* released, and not both.
C3_HoldResolved ==
  \A t \in DOMAIN holds :
    /\ ~(holds[t].withdrawn /\ holds[t].released)
    /\ holds[t].completed => (holds[t].withdrawn \/ holds[t].released)

\* C4 (compensation): a request whose insert failed on the used card_number
\* and that has ended called release_hold once and withdraw_funds never on its
\* hold, returned 422 "card_number already used", and persisted no payment.
C4_Compensation ==
  \A w \in PayProcs :
    (ploc[w].insert = "duplicate" /\ ppc[w] \in {"done", "panicked"})
    => /\ holds[ploc[w].hold].release_calls = 1
       /\ holds[ploc[w].hold].withdraw_calls = 0
       /\ ppc[w] = "done"
       /\ pres[w] = PErr(422, "card_number already used")
       /\ ploc[w].payment_id = 0

C6_SingleRefundRow ==
  \A pid \in PaymentIds : Cardinality(RefundRows(pid)) <= 1

\* C7 (refund monotonicity): no step lowers the amount of a refund row.
C7_Monotonic ==
  [][\A old \in refunds : \A new \in refunds' :
        new.id = old.id => new.amount >= old.amount]_vars

\* C8 (refund target validation): a request for a payment that is missing or
\* not approved ends with PaymentNotExist (404) and changes no refund row, and
\* every refund row refers to an approved payment.
C8_TargetValidated ==
  /\ [](\A r \in RefundProcs :
          (rpc[r] # "idle" /\ ~ApprovedPayment(rreq[r].payment_id))
          => (rpc[r] = "done" /\ rres[r] = ErrRes("PaymentNotExist", 404)))
  /\ [](\A row \in refunds : ApprovedPayment(row.payment_id))
  /\ [][\A pid \in PaymentIds :
          ~ApprovedPayment(pid) => RefundRows(pid)' = RefundRows(pid)]_vars

\* requests for the declined payment and for a missing one were both refused
C8_Witness ==
  \E x, y \in RefundProcs :
    /\ rreq[x].payment_id = 2 /\ rpc[x] = "done" /\ rres[x].kind = "PaymentNotExist"
    /\ rreq[y].payment_id = 3 /\ rpc[y] = "done" /\ rres[y].kind = "PaymentNotExist"
    /\ refunds = {}

\* C9 (over-limit rejection): a request that has compared its candidate total
\* (amount, or the amount of the row it read plus amount) with the payment and
\* whose candidate total is above the payment's amount ended with
\* AmoutRefundFailed.
C9_OverLimitRejected ==
  \A r \in RefundProcs :
    ( /\ Decided(r) \/ rpc[r] = "panicked"
      /\ ~Fits(Wide(rloc[r].refund_amount), rreq[r].amount, rloc[r].payment_fund) )
    => (rpc[r] = "done" /\ rres[r] = ErrRes("AmoutRefundFailed", 422))

\* C10 (cumulative refund): with requests issued one after the other, the
\* refund row of a payment holds the sum of the amounts of the successful
\* requests, and a successful request returns that sum.
C10_RunningTotal ==
  \A pid \in PaymentIds :
    RInFlight = {} =>
      /\ \A row \in RefundRows(pid) : Wide(row.amount) = okSum[pid]
      /\ RefundRows(pid) = {} => okSum[pid] = Wide(0)
      /\ (rpc[1] = "done" /\ rres[1].kind = "Ok" /\ rreq[1].payment_id = pid)
           => Wide(rres[1].amount) = okSum[pid]

\* request w takes the first step of post in this step (post is called)
PCalled(w) ==
  /\ ppc[w] \in {"idle", "done", "panicked"}
  /\ <<ppc[w], preq[w], ploc[w], pres[w]>> # <<ppc'[w], preq'[w], ploc'[w], pres'[w]>>

\* C11 (zero-amount validation): a request with amount 0 ends at once with the
\* error "zero amount" (204); it has no place_hold answer, no hold and no
\* insert result, and its step changes neither payments nor the holds nor the
\* number of place_hold calls.
C11_ZeroRejected ==
  /\ [](\A w \in PayProcs :
          (ppc[w] # "idle" /\ preq[w].amount = 0)
          => /\ ppc[w] = "done"
             /\ pres[w] = PErr(204, "zero amount")
             /\ ploc[w] = NoPLoc)
  /\ [][\A w \in PayProcs :
          (PCalled(w) /\ preq'[w].amount = 0)
          => (payments' = payments /\ holds' = holds /\ pcalls' = pcalls)]_vars

\* a zero-amount request was rejected while another request holds funds
C11_Witness ==
  \E v, w \in PayProcs :
    /\ preq[w].amount = 0 /\ ppc[w] = "done" /\ pres[w].error = "zero amount"
    /\ ppc[v] = "insert" /\ holds[ploc[v].hold].placed

\* C12 (decline outcomes): when place_hold answers invalid_account_number or
\* insufficient_funds, post returns Ok with status Declined and the request's
\* amount and card_number, the request has no hold and no insert result, and
\* its step changes neither payments nor the holds.
C12_Declined ==
  /\ [](\A w \in PayProcs :
          ploc[w].answer \in {"invalid_account_number", "insufficient_funds"}
          => /\ ppc[w] = "done"
             /\ pres[w].kind = "Ok" /\ pres[w].status = "Declined"
             /\ pres[w].amount = preq[w].amount
             /\ pres[w].card_number = preq[w].card_number
             /\ pres[w].code =
                  (IF ploc[w].answer = "insufficient_funds" THEN 402 ELSE 403)
             /\ ploc[w].hold = 0 /\ ploc[w].insert = "none"
             /\ ploc[w].payment_id = 0)
  /\ [][\A w \in PayProcs :
          (PCalled(w) /\ ploc'[w].answer
                           \in {"invalid_account_number", "insufficient_funds"})
          => (payments' = payments /\ holds' = holds)]_vars

\* both decline reasons were answered, one to each request
C12_Witness ==
  \E v, w \in PayProcs :
    /\ ploc[v].answer = "invalid_account_number" /\ pres[v].code = 403
    /\ ploc[w].answer = "insufficient_funds" /\ pres[w].code = 402
    /\ pres[v].amount = 5 /\ pres[w].amount = -1

\* post is over for request w: it returned or it panicked
PEnded(w) == ppc[w] \in {"done", "panicked"}

OutcomeClass(w) ==
  CASE preq[w].amount = 0 -> "invalid input"
    [] ploc[w].answer = "invalid_amount" -> "invalid input"
    [] ploc[w].answer \in {"invalid_account_number", "insufficient_funds"} -> "declined"
    [] ploc[w].answer = "other" -> "processing error"
    [] ploc[w].insert = "ok" -> "created"
    [] ploc[w].insert = "duplicate" -> "duplicate instrument"
    [] OTHER -> "none"

\* C15 (outcome distinguishability): two requests that returned with different
\* outcome classes differ in the kind of result or in the status code.
C15_Distinguishable ==
  \A v, w \in PayProcs :
    (ppc[v] = "done" /\ ppc[w] = "done"
       /\ OutcomeClass(v) # "none" /\ OutcomeClass(w) # "none"
       /\ OutcomeClass(v) # OutcomeClass(w))
    => <<pres[v].kind, pres[v].code>> # <<pres[w].kind, pres[w].code>>

\* C16 (payment workflow ordering): payments::insert is attempted only with
\* the hold placed; withdraw_funds is called only by a request whose insert
\* succeeded and release_hold only by one whose insert failed; a request whose
\* insert failed has had its hold released when it returns.
C16_Ordering ==
  /\ [][\A w \in PayProcs :
          /\ (ploc'[w].insert # ploc[w].insert /\ ploc'[w].insert # "none")
             => /\ ploc[w].answer = "granted" /\ ploc[w].hold # 0
                /\ holds[ploc[w].hold].placed
                /\ holds[ploc[w].hold].withdraw_calls = 0
                /\ holds[ploc[w].hold].release_calls = 0
          /\ (ploc[w].hold # 0
                /\ holds'[ploc[w].hold].withdraw_calls
                      > holds[ploc[w].hold].withdraw_calls)
             => ploc[w].insert = "ok"
          /\ (ploc[w].hold # 0
                /\ holds'[ploc[w].hold].release_calls
                      > holds[ploc[w].hold].release_calls)
             => ploc[w].insert \in {"duplicate", "fault"}]_vars
  /\ [][\A t \in DOMAIN holds :
          (holds'[t].withdraw_calls > holds[t].withdraw_calls
             \/ holds'[t].release_calls > holds[t].release_calls)
          => \E w \in PayProcs : ploc[w].hold = t]_vars
  /\ [](\A w \in PayProcs :
          (ppc[w] = "done" /\ ploc[w].insert \in {"duplicate", "fault"})
          => /\ holds[ploc[w].hold].release_calls = 1
             /\ holds[ploc[w].hold].released
             /\ holds[ploc[w].hold].withdraw_calls = 0)

\* one request went hold, insert, withdraw and returned 201; the other went
\* hold, failed insert, release and returned 422
C16_Witness ==
  \E v, w \in PayProcs :
    /\ ppc[v] = "done" /\ pres[v].code = 201 /\ holds[ploc[v].hold].withdrawn
    /\ ppc[w] = "done" /\ pres[w].code = 422 /\ holds[ploc[w].hold].released

\* withdraw_funds of request w was called and reported an error
WithdrawFailed(w) ==
  /\ ploc[w].insert = "ok"
  /\ holds[ploc[w].hold].withdraw_calls = 1
  /\ ~holds[ploc[w].hold].withdrawn

\* C17 (withdraw failure): a request whose withdraw_funds failed has panicked
\* and returned no result; its payment row is in payments as inserted, and
\* release_hold was not called on its hold.
C17_WithdrawFailure ==
  \A w \in PayProcs :
    WithdrawFailed(w)
    => /\ ppc[w] = "panicked"
       /\ pres[w] = NoPRes
       /\ [id |-> ploc[w].payment_id, amount |-> preq[w].amount,
           card_number |-> preq[w].card_number, status |-> "Approved"] \in payments
       /\ holds[ploc[w].hold].release_calls = 0
       /\ ~holds[ploc[w].hold].released

\* the withdraw of w failed, and a later request for the same card was
\* answered 422: the row of w is still in payments
C17_Witness ==
  \E v, w \in PayProcs :
    /\ WithdrawFailed(w) /\ ppc[w] = "panicked"
    /\ preq[v].card_number = preq[w].card_number
    /\ ppc[v] = "done" /\ ploc[v].insert = "duplicate"

\* C18 (non-duplicate persistence failure): a request whose insert failed for
\* another reason than a duplicate card_number does not return the conflict
\* error, and the conflict error is returned only for a duplicate.
C18_FaultIsNotConflict ==
  \A w \in PayProcs :
    /\ (PEnded(w) /\ ploc[w].insert = "fault")
       => pres[w] # PErr(422, "card_number already used")
    /\ (ppc[w] = "done" /\ pres[w] = PErr(422, "card_number already used"))
       => ploc[w].insert = "duplicate"

\* C19 (positive payment amount): every row of payments has amount > 0, and a
\* request with a negative amount neither inserts a row nor has funds withdrawn.
C19_PositiveAmount ==
  /\ \A p \in payments : p.amount > 0
  /\ \A w \in PayProcs :
       preq[w].amount < 0
       => /\ ploc[w].insert # "ok"
          /\ ploc[w].hold # 0 => holds[ploc[w].hold].withdraw_calls = 0

\* C20 (refund total arithmetic): for a request that found a refund row, the
\* addition does not fail, the total it compared is the sum over the integers
\* of the row's amount and the request's amount, and a total it goes on to
\* write is no more than the payment's amount.
C20_TotalIsSum ==
  \A r \in RefundProcs :
    rloc[r].some
    => /\ rpc[r] # "panicked"
       /\ Wide(rloc[r].total) = WAdd(Wide(rloc[r].refund_amount), Wide(rreq[r].amount))
       /\ rpc[r] = "update"
            => Fits(Wide(rloc[r].refund_amount), rreq[r].amount, rloc[r].payment_fund)

====
